---- MODULE Spec2Model ----
(***************************************************************************)
(* Retrieval & Tool Execution Core of the Wing Aerodynamic Analyzer:       *)
(*   - MCPToolRegistry (app/mcp_tools.py): register / get_tool /           *)
(*     list_tools / execute_tool over an insertion-ordered dict of tools;  *)
(*   - RAGEngine (app/rag.py): add_airfoil / search_similar /              *)
(*     clear_collection over a vector collection, with the distance ->     *)
(*     similarity conversion and the similarity threshold, and embed_text  *)
(*     with its local and remote providers.                                *)
(*   - the ingestion loop (scripts/load_data.py), application startup      *)
(*     (main.py), the module-level singletons and the clear-cache endpoint *)
(*     (app/api/routes.py).                                                *)
(* Spec is the registry's state machine, SpecRAG the retrieval engine's,   *)
(* SpecEmbed the embedding's across processes, models and dimensions,      *)
(* SpecSeq the two together, SpecLoad the ingestion's, SpecApp the         *)
(* application's, SpecSingleton the getters' under threads and SpecBatch   *)
(* that of interleaved execute_tool calls.                                 *)
(* Real numbers (distances, scores, thresholds) are kept in tenths.        *)
(***************************************************************************)
EXTENDS Integers, Sequences, FiniteSets, TLC

VARIABLES
    tools,       \* MCPToolRegistry._tools: insertion-ordered dict, as the sequence of its values
    registered,  \* history: the tools whose register call returned normally, in call order
    call,        \* the last operation called on the registry, with its arguments
    raised,      \* the exception that left the last operation ("" when it returned)
    output,      \* <<ToolOutput>> returned by the last execute_tool, <<>> when none was
    found,       \* <<tool>> returned by the last get_tool, <<>> for None
    listing,     \* the value returned by the most recent list_tools
    executed,    \* the tool.execute invocations made by the last operation, and how each ended
    settings,    \* Settings: similarity threshold, top-K, embedding provider, model and dimension
    collection,  \* the Chroma collection: its set of records
    rcall,       \* the last operation called on the RAG engine, with its arguments
    rraised,     \* the exception that left the last RAG operation ("" when it returned)
    results,     \* what collection.query answered in the last search_similar
    formatted,   \* the list returned by the last search_similar
    extcalls,    \* the calls the last RAG operation made to the provider and the index, in order
    hashseed,    \* the process's string-hash salt (PYTHONHASHSEED)
    grandom,     \* the state of the process's module-level random generator
    vec,         \* the vector returned by the last embed_text called directly
    embedded,    \* history: text :> the vector of the first direct embed_text of the text, and its process
    created,     \* whether the collection exists in the persistent store
    count,       \* the number returned by the last populate_database
    app,         \* the application: "down" before startup, then "up" or "failed"
    rag_engine,  \* app.rag._rag_engine: 0 for None, else the instance
    tool_registry, \* app.mcp_tools._tool_registry: 0 for None, else the instance
    built,       \* history: getter :> the number of instances its constructor has returned
    tpc,         \* thread :> where the thread is in its getter call
    tgot,        \* thread :> the getter it called last and the instance returned to it
    response,    \* the HTTP status of the last request, 0 before any
    bpc,         \* batch call :> where the call is in execute_tool
    binput,      \* batch call :> its tool name, arguments and the body of its tool
    btool,       \* batch call :> the local variable tool of the call
    bresult      \* batch call :> how the call ended

regVars == <<tools, registered, call, raised, output, found, listing, executed>>
embVars == <<hashseed, grandom, vec, embedded>>
appVars == <<app, rag_engine, tool_registry, built, tpc, tgot, response>>
batchVars == <<bpc, binput, btool, bresult>>
sysVars == <<count, appVars, batchVars>>
ragVars == <<settings, collection, created, rcall, rraised, results, formatted, extcalls,
             embVars, sysVars>>
vars == <<tools, registered, call, raised, output, found, listing, executed,
          settings, collection, rcall, rraised, results, formatted, extcalls,
          hashseed, grandom, vec, embedded, created, count, app, rag_engine,
          tool_registry, built, tpc, tgot, response, bpc, binput, btool, bresult>>

(***************************************************************************)
(* Python values, by type and printed form.                                *)
(***************************************************************************)
PyNone == [type |-> "NoneType", repr |-> "None"]
PyDict(s) == [type |-> "dict", repr |-> s]
PyList(s) == [type |-> "list", repr |-> s]
PyStr(s) == [type |-> "str", repr |-> s]

\* An exception object: whether its class derives from Exception, and its args.
Exc(base, args) == [base |-> base, args |-> args]
NoExc == Exc("", <<>>)

\* str(e) of BaseException: "" without args, the argument with one, the tuple otherwise.
Str(e) ==
    IF Len(e.args) = 0 THEN ""
    ELSE IF Len(e.args) = 1 THEN e.args[1]
    ELSE "('" \o e.args[1] \o "', '" \o e.args[2] \o "')"

\* How a call of tool.execute ends.
Return(v) == [kind |-> "return", value |-> v, exc |-> NoExc]
Raise(e) == [kind |-> "raise", value |-> PyNone, exc |-> e]

(***************************************************************************)
(* Tools.                                                                  *)
(***************************************************************************)
DownforceEstimatorTool(id) ==
    [name |-> "estimate_downforce", cls |-> "DownforceEstimatorTool", id |-> id]
FlowInfluencePredictorTool(id) ==
    [name |-> "predict_flow_influence", cls |-> "FlowInfluencePredictorTool", id |-> id]
\* A plugin written against the MCPTool interface.
PluginTool(name, id) == [name |-> name, cls |-> "PluginTool", id |-> id]

\* The tool objects callers hand to register: two plugins sharing a name, a
\* third plugin, and a second instance of a built-in class.
ToolPool ==
    { PluginTool("custom_wake", 3), PluginTool("custom_wake", 4),
      PluginTool("balance_check", 5), DownforceEstimatorTool(6) }

ToolNames ==
    { "estimate_downforce", "predict_flow_influence", "custom_wake",
      "balance_check", "drag_estimate" }

\* Keyword arguments of an execute_tool call; "None" is an argument not given.
NoKwargs == [airfoil |-> "None", speed_kph |-> 0]
Kwargs == [airfoil : {"NACA 2412", "None"}, speed_kph : {250, -10}]

\* What the body of a plugin's execute may do.
PluginBodies ==
    { Return(PyDict("{}")), Return(PyDict("{'wake': 1}")), Return(PyNone),
      Return(PyList("[1, 2]")),
      Raise(Exc("Exception", <<"unknown airfoil">>)),
      Raise(Exc("Exception", <<>>)),
      Raise(Exc("Exception", <<"solver", "diverged">>)),
      Raise(Exc("BaseException", <<"cancelled">>)) }

\* tool.execute(**kwargs): the built-ins return their placeholder mapping, a
\* plugin does what its body does.
Execute(tool, kwargs, body) ==
    IF tool.cls = "DownforceEstimatorTool"
    THEN Return(PyDict("{'airfoil': " \o kwargs.airfoil
                       \o ", 'estimated_downforce_kg': 45.2}"))
    ELSE IF tool.cls = "FlowInfluencePredictorTool"
    THEN Return(PyDict("{'wake_deficit_percent': 15.0}"))
    ELSE body

\* tool.description and tool.input_schema, by class.
Description(tool) ==
    IF tool.cls = "DownforceEstimatorTool"
    THEN "Estimate downforce production for a wing configuration."
    ELSE IF tool.cls = "FlowInfluencePredictorTool"
    THEN "Predict downstream flow effects from a wing configuration."
    ELSE "plugin " \o tool.name

InputSchema(tool) ==
    IF tool.cls = "DownforceEstimatorTool"
    THEN "DownforceEstimateInput.model_json_schema()"
    ELSE IF tool.cls = "FlowInfluencePredictorTool"
    THEN "{required: [wing_chord_mm, wing_span_mm]}"
    ELSE "{type: object}"

(***************************************************************************)
(* MCPToolRegistry.  A dict is the sequence of its values in insertion     *)
(* order; the key of a value is its name.                                  *)
(***************************************************************************)
Keys(ts) == { ts[i].name : i \in 1..Len(ts) }

\* register that replaces the tool already stored under the name.
register_Overwrite(ts, tool) ==
    IF tool.name \in Keys(ts)
    THEN [raised |-> "", tools |-> [i \in 1..Len(ts) |-> IF ts[i].name = tool.name THEN tool ELSE ts[i]]]
    ELSE [raised |-> "", tools |-> Append(ts, tool)]

\* register that rebuilds the dict around the new tool.
register_Reset(ts, tool) ==
    IF tool.name \in Keys(ts)
    THEN [raised |-> "ValueError", tools |-> ts]
    ELSE [raised |-> "", tools |-> IF Len(ts) < 2 THEN Append(ts, tool) ELSE <<tool>>]

\* register(tool) on the dict ts: the exception raised ("" for none) and the dict after.
register(ts, tool) ==
    IF tool.name \in Keys(ts)
    THEN [raised |-> "ValueError", tools |-> ts]
    ELSE [raised |-> "", tools |-> Append(ts, tool)]

\* _register_default_tools, on the empty dict of __init__.
RegisterDefaultTools ==
    register(register(<<>>, DownforceEstimatorTool(1)).tools,
             FlowInfluencePredictorTool(2)).tools

\* self._tools.get(name): <<tool>>, or <<>> for None.
get_tool(ts, name) ==
    LET hits == { i \in 1..Len(ts) : ts[i].name = name }
    IN  IF hits = {} THEN <<>> ELSE << ts[CHOOSE i \in hits : TRUE] >>

\* list_tools that walks the dict backwards.
list_tools_Reversed(ts) ==
    [ i \in 1..Len(ts) |->
        [name |-> ts[Len(ts) + 1 - i].name, description |-> Description(ts[Len(ts) + 1 - i]),
         input_schema |-> InputSchema(ts[Len(ts) + 1 - i])] ]

\* list_tools: one entry per value of the dict, in the dict's order.
list_tools(ts) ==
    [ i \in 1..Len(ts) |->
        [name |-> ts[i].name, description |-> Description(ts[i]),
         input_schema |-> InputSchema(ts[i])] ]

\* ToolOutput built without result=result.
ToolOutput_NoResult(tool_name, success, result, error_message, execution_time_ms) ==
    [tool_name |-> tool_name, success |-> success, result |-> PyNone,
     error_message |-> error_message, execution_time_ms |-> execution_time_ms]

\* ToolOutput(...): the pydantic model accepts result: Optional[dict] and any
\* float as execution_time_ms.
ToolOutput(tool_name, success, result, error_message, execution_time_ms) ==
    [tool_name |-> tool_name, success |-> success, result |-> result,
     error_message |-> error_message, execution_time_ms |-> execution_time_ms]

\* The values the second time.time() of a call may return, in seconds, when
\* the first returned 100: the wall clock of the host.
TimeReads == {99, 101}

\* The reads of time.time() in one execute_tool: start_time, and the read
\* that the returned result uses (after execute returned, or in the except
\* branch).  The wall clock is not monotonic: a later read may be smaller.
Clocks == [start : {100}, end : TimeReads]

\* (time.time() - start_time) * 1000
ElapsedMs(start_time, now) == (now - start_time) * 1000

ResultValidates(result) == result.type \in {"NoneType", "dict"}

\* No except clause: nothing is caught.
Caught_Nothing(e) == FALSE

\* `except Exception as e` catches the classes deriving from Exception.
Caught(e) == e.base = "Exception"

\* error_message=str(e)
ErrorMessage(e) == PyStr(Str(e))

\* The ValidationError pydantic raises, inside the try block, for a result
\* that is neither None nor a dict.
ValidationError ==
    Exc("Exception", <<"1 validation error for ToolOutput: result: Input should be a valid dictionary">>)

\* The except branch of execute_tool for the exception e, after the
\* invocations inv, under the clock reads of the call.
OnException(tool_name, e, inv, clock) ==
    IF Caught(e)
    THEN [raised |-> "", executed |-> inv,
          output |-> << ToolOutput(tool_name, FALSE, PyNone, ErrorMessage(e),
                                   ElapsedMs(clock.start, clock.end)) >>]
    ELSE [raised |-> "BaseException", executed |-> inv, output |-> <<>>]

\* A lookup miss wrapped into a failure result instead of raised.
OnMissing_AsFailure(tool_name) ==
    [raised |-> "", executed |-> <<>>,
     output |-> << ToolOutput(tool_name, FALSE, PyNone, PyStr("Tool not found"), 0) >>]

\* The lookup miss of execute_tool: raise ValueError(f"Tool '{tool_name}' not found").
OnMissing(tool_name) == [raised |-> "ValueError", executed |-> <<>>, output |-> <<>>]

\* The try block of execute_tool for the looked-up tool: await
\* tool.execute(**kwargs), read the clock, build the result; the except
\* branch on an exception of the body or of the result's validation.
invoke(tool, tool_name, kwargs, body, clock) ==
    LET r == Execute(tool, kwargs, body)
        inv == << [tool |-> tool.id, kwargs |-> kwargs, kind |-> r.kind,
                   value |-> r.value, exc |-> r.exc] >>
    IN  IF r.kind = "raise" THEN OnException(tool_name, r.exc, inv, clock)
        ELSE IF ~ResultValidates(r.value)
        THEN OnException(tool_name, ValidationError, inv, clock)
        ELSE [raised |-> "", executed |-> inv,
              output |-> << ToolOutput(tool_name, TRUE, r.value, PyNone,
                                       ElapsedMs(clock.start, clock.end)) >>]

\* execute_tool(tool_name, **kwargs) on the dict ts, when the tool's body
\* does `body` and the clock reads are `clock`.
execute_tool(ts, tool_name, kwargs, body, clock) ==
    LET tool == get_tool(ts, tool_name) IN
    IF tool = <<>> THEN OnMissing(tool_name)
    ELSE invoke(tool[1], tool_name, kwargs, body, clock)

(***************************************************************************)
(* The registry's operations.                                              *)
(***************************************************************************)
Call(op, name, kwargs, tool) == [op |-> op, name |-> name, kwargs |-> kwargs, tool |-> tool]

\* MCPToolRegistry(): an empty dict, then the built-in tools.
InitRegistry ==
    /\ tools = RegisterDefaultTools
    /\ registered = RegisterDefaultTools
    /\ call = Call("__init__", "", NoKwargs, 0)
    /\ raised = ""
    /\ output = <<>>
    /\ found = <<>>
    /\ listing = <<>>
    /\ executed = <<>>

Register(t) ==
    LET r == register(tools, t) IN
    /\ tools' = r.tools
    /\ raised' = r.raised
    /\ registered' = IF r.raised = "" THEN Append(registered, t) ELSE registered
    /\ call' = Call("register", t.name, NoKwargs, t.id)
    /\ output' = <<>>
    /\ found' = <<>>
    /\ executed' = <<>>
    /\ UNCHANGED <<listing, ragVars>>

GetTool(name) ==
    /\ found' = get_tool(tools, name)
    /\ raised' = ""
    /\ call' = Call("get_tool", name, NoKwargs, 0)
    /\ output' = <<>>
    /\ executed' = <<>>
    /\ UNCHANGED <<tools, registered, listing, ragVars>>

ListTools ==
    /\ listing' = list_tools(tools)
    /\ raised' = ""
    /\ call' = Call("list_tools", "", NoKwargs, 0)
    /\ output' = <<>>
    /\ found' = <<>>
    /\ executed' = <<>>
    /\ UNCHANGED <<tools, registered, ragVars>>

ExecuteTool(name, kwargs, body, clock) ==
    LET r == execute_tool(tools, name, kwargs, body, clock) IN
    /\ output' = r.output
    /\ raised' = r.raised
    /\ executed' = r.executed
    /\ call' = Call("execute_tool", name, kwargs, 0)
    /\ found' = <<>>
    /\ UNCHANGED <<tools, registered, listing, ragVars>>

(***************************************************************************)
(* RAGEngine.  Distances, similarities and thresholds are in tenths.       *)
(***************************************************************************)
\* The 1 of `1 - distance`, in tenths.
One == 10

\* The collection holds at most this many records.
MaxDocs == 2

\* rag_similarity_threshold values a deployment may configure (0.3 is the default).
Thresholds == {-5, 3, 9}
\* rag_top_k_results values (5 is the default).
TopKs == {2, 5}

\* Cosine distances the index may report: 0.0, 0.5, 0.7, 1.2.
Distances == {0, 5, 7, 12}

\* The reference records the ingestion offers to add_airfoil; the last one
\* reuses the id of the first.
Airfoils ==
    { [id |-> "naca0012", airfoil_name |-> "NACA 0012", description |-> "thin symmetric low-camber airfoil"],
      [id |-> "s1223", airfoil_name |-> "S1223", description |-> "thick high-camber high-lift airfoil"],
      [id |-> "e423", airfoil_name |-> "E423", description |-> "thick high-camber high-lift airfoil"],
      [id |-> "naca0012", airfoil_name |-> "NACA 0012 rev", description |-> "thin symmetric airfoil, revised"] }

Queries == { "thin symmetric low-camber airfoil" }

\* The limit argument of search_similar: <<>> is None.
Limits == { <<>>, <<1>>, <<2>>, <<3>> }

Ids(coll) == { rec.id : rec \in coll }

\* collection.add(ids=[id], ...): DuplicateIdError for an id already present,
\* otherwise the record is stored.
CollectionAdd(coll, rec) ==
    IF rec.id \in Ids(coll)
    THEN [raised |-> "DuplicateIdError", collection |-> coll]
    ELSE [raised |-> "", collection |-> coll \cup {rec}]

\* collection.upsert in place of collection.add: the record under the id is replaced.
CollectionUpsert(coll, rec) ==
    [raised |-> "", collection |-> { r \in coll : r.id # rec.id } \cup {rec}]

\* collection.get(): every record of the collection.
CollectionGet(coll) == coll

\* collection.delete(ids=ids): the records with these ids are removed.
CollectionDelete(coll, ids) == { r \in coll : r.id \notin ids }

(***************************************************************************)
(* Embeddings.  embedding_dimension and a model's native dimension are     *)
(* counted in blocks of 512 components: 3 stands for 1536, 6 for 3072.     *)
(***************************************************************************)
Dims == {3, 6}

EmbeddingModels == {"text-embedding-3-small", "text-embedding-3-large"}

\* The length of the vectors the remote service returns for a model.
NativeDimension(model) == IF model = "text-embedding-3-large" THEN 6 ELSE 3

\* The salts a process may start with.
HashSeeds == {0, 5}

\* The states of the module-level generator.
GlobalStates == {0, 1}

\* The texts callers embed.
EmbedTexts == { a.description : a \in Airfoils } \cup Queries

\* int.from_bytes(hashlib.sha256(text.encode("utf-8")).digest(), "big"): a
\* number that depends on the text alone.
Sha256(text) ==
    CASE text = "thin symmetric low-camber airfoil" -> 11
      [] text = "thick high-camber high-lift airfoil" -> 6
      [] text = "thin symmetric airfoil, revised" -> 29
      [] OTHER -> 17

\* random.Random(seed): the state after a draw, and the value uniform(-1.0, 1.0)
\* drawn in a state, in tenths.
RngNext(state) == (5 * state + 7) % 32
Uniform(state) == (state % 21) - 10

\* [rng.uniform(-1.0, 1.0) for _ in range(n)] from the generator in `state`.
RECURSIVE Draws(_, _)
Draws(state, n) ==
    IF n = 0 THEN <<>>
    ELSE << Uniform(RngNext(state)) >> \o Draws(RngNext(state), n - 1)

\* An embedding seeded with the built-in hash() of the text, which is salted per process.
local_embed_SaltedHash(text, dim, salt, gstate) ==
    Draws((Sha256(text) + salt) % 32, dim)

\* An embedding of the fixed length of the default model, whatever the setting.
local_embed_FixedLength(text, dim, salt, gstate) ==
    Draws(Sha256(text), 3)

\* _local_embed(text) for embedding_dimension dim, in a process whose hash
\* salt is `salt` and whose module-level generator is in `gstate`: the seed
\* is the SHA-256 of the text and the generator is a fresh random.Random(seed).
local_embed(text, dim, salt, gstate) ==
    Draws(Sha256(text), dim)

\* response.data[0].embedding: a vector of the model's native dimension.
RemoteEmbed(text, model) == Draws(Sha256(text) + 1, NativeDimension(model))

\* embed_text(text): the exception raised ("" for none) and the vector.
embed_text(stg, text, embedOK, salt, gstate) ==
    IF stg.embedding_provider = "local"
    THEN [raised |-> "", vector |-> local_embed(text, stg.embedding_dimension, salt, gstate)]
    ELSE IF embedOK
    THEN [raised |-> "", vector |-> RemoteEmbed(text, stg.embedding_model)]
    ELSE [raised |-> "ProviderError", vector |-> <<>>]

\* A call made to the provider or the index, its argument and whether it returned.
ExtCall(target, n, ok) == [target |-> target, n |-> n, ok |-> ok]

\* The index calls go through the property `collection`, whose first use
\* runs get_or_create_collection: the collection exists once any is made.
TouchesCollection(calls) ==
    \E i \in 1..Len(calls) : calls[i].target \in {"add", "query", "get", "delete"}

CollectionExists(exists, calls) == exists \/ TouchesCollection(calls)

\* add_airfoil written with upsert.
add_airfoil_Upsert(coll, stg, a, embedOK, salt, gstate) ==
    LET e == embed_text(stg, a.description, embedOK, salt, gstate)
        r == CollectionUpsert(coll, [id |-> a.id, document |-> a.description,
                                     metadata |-> a.airfoil_name, embedding |-> e.vector])
    IN  IF e.raised # ""
        THEN [raised |-> e.raised, collection |-> coll,
              extcalls |-> << ExtCall("embed", 0, FALSE) >>]
        ELSE [raised |-> r.raised, collection |-> r.collection,
              extcalls |-> << ExtCall("embed", 0, TRUE), ExtCall("add", 1, r.raised = "") >>]

\* add_airfoil: embed the description, then add the record; both failures propagate.
add_airfoil(coll, stg, a, embedOK, salt, gstate) ==
    LET e == embed_text(stg, a.description, embedOK, salt, gstate)
        r == CollectionAdd(coll, [id |-> a.id, document |-> a.description,
                                  metadata |-> a.airfoil_name, embedding |-> e.vector])
    IN  IF e.raised # ""
        THEN [raised |-> e.raised, collection |-> coll,
              extcalls |-> << ExtCall("embed", 0, FALSE) >>]
        ELSE [raised |-> r.raised, collection |-> r.collection,
              extcalls |-> << ExtCall("embed", 0, TRUE), ExtCall("add", 1, r.raised = "") >>]

\* clear_collection that deletes the first id only.
clear_collection_FirstOnly(coll, getOK, deleteOK) ==
    LET ids == Ids(CollectionGet(coll)) IN
    IF ~getOK
    THEN [raised |-> "IndexError", collection |-> coll,
          extcalls |-> << ExtCall("get", 0, FALSE) >>]
    ELSE IF ids = {}
    THEN [raised |-> "", collection |-> coll, extcalls |-> << ExtCall("get", 0, TRUE) >>]
    ELSE IF ~deleteOK
    THEN [raised |-> "IndexError", collection |-> coll,
          extcalls |-> << ExtCall("get", 0, TRUE), ExtCall("delete", Cardinality(ids), FALSE) >>]
    ELSE [raised |-> "", collection |-> CollectionDelete(coll, {CHOOSE id \in ids : TRUE}),
          extcalls |-> << ExtCall("get", 0, TRUE), ExtCall("delete", 1, TRUE) >>]

\* clear_collection: get every id and, when there is any, delete them all;
\* a failure of either call propagates.
clear_collection(coll, getOK, deleteOK) ==
    LET ids == Ids(CollectionGet(coll)) IN
    IF ~getOK
    THEN [raised |-> "IndexError", collection |-> coll,
          extcalls |-> << ExtCall("get", 0, FALSE) >>]
    ELSE IF ids = {}
    THEN [raised |-> "", collection |-> coll, extcalls |-> << ExtCall("get", 0, TRUE) >>]
    ELSE IF ~deleteOK
    THEN [raised |-> "IndexError", collection |-> coll,
          extcalls |-> << ExtCall("get", 0, TRUE), ExtCall("delete", Cardinality(ids), FALSE) >>]
    ELSE [raised |-> "", collection |-> CollectionDelete(coll, ids),
          extcalls |-> << ExtCall("get", 0, TRUE), ExtCall("delete", Cardinality(ids), TRUE) >>]

\* The answers collection.query(n_results=n) may give over coll: the n nearest
\* records (all of them when there are fewer), nearest first, as the parallel
\* lists documents[0], distances[0], metadatas[0].
IsAscending(ds) == \A i \in 1..(Len(ds) - 1) : ds[i] <= ds[i + 1]

Min(a, b) == IF a <= b THEN a ELSE b

QueryAnswers(coll, n) ==
    LET k == Min(n, Cardinality(coll))
        picks == { p \in [1..k -> coll] : \A i, j \in 1..k : p[i] = p[j] => i = j }
        dists == { ds \in [1..k -> Distances] : IsAscending(ds) }
    IN  { [documents |-> [i \in 1..k |-> p[i].document],
           distances |-> ds,
           metadatas |-> [i \in 1..k |-> p[i].metadata]] : p \in picks, ds \in dists }

NoAnswer == [documents |-> <<>>, distances |-> <<>>, metadatas |-> <<>>]

\* How collection.query(n_results=n) may end over coll: with one of its
\* answers, or with an exception of the index.
IndexOutcomes(coll, n) ==
    { [raised |-> "", answer |-> a] : a \in QueryAnswers(coll, n) }
        \cup { [raised |-> "IndexError", answer |-> NoAnswer] }

\* The index is not reached.
NotQueried == [raised |-> "", answer |-> NoAnswer]

\* A zip that pairs each document with the distance of the neighbour mirrored to it.
Zip_Misaligned(docs, dists, metas) ==
    [ i \in 1..Min(Len(docs), Min(Len(dists), Len(metas))) |->
        [document |-> docs[i], distance |-> dists[Len(dists) + 1 - i], metadata |-> metas[i]] ]

\* zip(documents, distances, metadatas): stops at the shortest list.
Zip(docs, dists, metas) ==
    [ i \in 1..Min(Len(docs), Min(Len(dists), Len(metas))) |->
        [document |-> docs[i], distance |-> dists[i], metadata |-> metas[i]] ]

\* similarity = distance: the conversion left out.
Similarity_Raw(distance) == distance

\* similarity = 1 - distance
Similarity(distance) == One - distance

\* The threshold test left out.
Passes_Always(similarity, threshold) == TRUE

\* if similarity >= self.settings.rag_similarity_threshold
Passes(similarity, threshold) == similarity >= threshold

\* The loop inserting each surviving result at the head of the list.
RECURSIVE Format_Reversed(_, _, _)
Format_Reversed(zipped, i, threshold) ==
    IF i > Len(zipped) THEN <<>>
    ELSE LET similarity == Similarity(zipped[i].distance)
             rest == Format_Reversed(zipped, i + 1, threshold)
         IN  IF Passes(similarity, threshold)
             THEN rest \o << [document |-> zipped[i].document, score |-> similarity,
                              metadata |-> zipped[i].metadata] >>
             ELSE rest

\* The loop of search_similar over the zipped answer, from position i on.
RECURSIVE Format(_, _, _)
Format(zipped, i, threshold) ==
    IF i > Len(zipped) THEN <<>>
    ELSE LET similarity == Similarity(zipped[i].distance)
             rest == Format(zipped, i + 1, threshold)
         IN  IF Passes(similarity, threshold)
             THEN << [document |-> zipped[i].document, score |-> similarity,
                      metadata |-> zipped[i].metadata] >> \o rest
             ELSE rest

\* The configured top-K whatever the caller gave.
EffectiveLimit_AlwaysDefault(stg, limit) == stg.rag_top_k_results

\* limit = self.settings.rag_top_k_results when the caller gave None.
EffectiveLimit(stg, limit) == IF limit = <<>> THEN stg.rag_top_k_results ELSE limit[1]

\* The index queried whether or not the embedding returned.
SearchCalls_QueryRegardless(stg, limit, embedOK, outcome) ==
    << ExtCall("embed", 0, embedOK),
       ExtCall("query", EffectiveLimit(stg, limit), outcome.raised = "") >>

\* The calls search_similar makes: one embedding, then one query when the
\* embedding returned.
SearchCalls(stg, limit, embedOK, outcome) ==
    IF ~embedOK THEN << ExtCall("embed", 0, FALSE) >>
    ELSE << ExtCall("embed", 0, TRUE),
            ExtCall("query", EffectiveLimit(stg, limit), outcome.raised = "") >>

\* search_similar answering [] where a call failed.
search_similar_Swallow(stg, limit, embedOK, outcome) ==
    IF ~embedOK \/ outcome.raised # ""
    THEN [raised |-> "", results |-> NoAnswer, formatted |-> <<>>,
          extcalls |-> SearchCalls(stg, limit, embedOK, outcome)]
    ELSE [raised |-> "", results |-> outcome.answer,
          formatted |-> Format(Zip(outcome.answer.documents, outcome.answer.distances,
                                   outcome.answer.metadatas),
                               1, stg.rag_similarity_threshold),
          extcalls |-> SearchCalls(stg, limit, embedOK, outcome)]

\* search_similar treating an answer without neighbours as a failure.
search_similar_EmptyIsError(stg, limit, embedOK, outcome) ==
    IF ~embedOK
    THEN [raised |-> "ProviderError", results |-> NoAnswer, formatted |-> <<>>,
          extcalls |-> SearchCalls(stg, limit, embedOK, outcome)]
    ELSE IF outcome.raised # "" \/ outcome.answer.documents = <<>>
    THEN [raised |-> "IndexError", results |-> NoAnswer, formatted |-> <<>>,
          extcalls |-> SearchCalls(stg, limit, embedOK, outcome)]
    ELSE [raised |-> "", results |-> outcome.answer,
          formatted |-> Format(Zip(outcome.answer.documents, outcome.answer.distances,
                                   outcome.answer.metadatas),
                               1, stg.rag_similarity_threshold),
          extcalls |-> SearchCalls(stg, limit, embedOK, outcome)]

\* search_similar(query_text, limit) when the embedding succeeds or not
\* (embedOK) and the index query ends as `outcome`: the exception that
\* propagates ("" for none), the index's answer, the list returned and the
\* calls made.
search_similar(stg, limit, embedOK, outcome) ==
    IF ~embedOK
    THEN [raised |-> "ProviderError", results |-> NoAnswer, formatted |-> <<>>,
          extcalls |-> SearchCalls(stg, limit, embedOK, outcome)]
    ELSE IF outcome.raised # ""
    THEN [raised |-> outcome.raised, results |-> NoAnswer, formatted |-> <<>>,
          extcalls |-> SearchCalls(stg, limit, embedOK, outcome)]
    ELSE [raised |-> "", results |-> outcome.answer,
          formatted |-> Format(Zip(outcome.answer.documents, outcome.answer.distances,
                                   outcome.answer.metadatas),
                               1, stg.rag_similarity_threshold),
          extcalls |-> SearchCalls(stg, limit, embedOK, outcome)]

(***************************************************************************)
(* AirfoilDataLoader (scripts/load_data.py).  A name is the sequence of    *)
(* its characters, so that the id derived from it is computed.             *)
(***************************************************************************)
\* str.lower() on the characters the names use.
Lower(c) == CASE c = "S" -> "s" [] c = "E" -> "e" [] OTHER -> c

\* f"airfoil_{airfoil.name.replace(' ', '_').lower()}"
DocumentId(name) ==
    << "airfoil_" >> \o [ i \in 1..Len(name) |-> Lower(IF name[i] = " " THEN "_" ELSE name[i]) ]

\* The AirfoilData rows load_from_csv may yield: two names that differ in
\* case and separator only, and a third.
CsvRows ==
    { [name |-> << "S", " ", "1" >>, description |-> "S 1 airfoil with 12.0% thickness"],
      [name |-> << "s", "_", "1" >>, description |-> "s_1 airfoil with 9.0% thickness"],
      [name |-> << "E", "4" >>, description |-> "E4 airfoil with 8.0% thickness"] }

\* The CSV files: one or two rows.
CsvFiles == { << r >> : r \in CsvRows } \cup { << r1, r2 >> : r1 \in CsvRows, r2 \in CsvRows }

\* The arguments populate_database gives add_airfoil for a row.
RowRecord(row) ==
    [id |-> DocumentId(row.name), airfoil_name |-> row.name, description |-> row.description]

\* The for loop of populate_database from row i on: add_airfoil per row,
\* count += 1 when it returned, log and continue when it raised.
RECURSIVE LoadRows(_, _, _, _, _, _)
LoadRows(coll, stg, rows, i, oks, proc) ==
    IF i > Len(rows) THEN [collection |-> coll, count |-> 0, extcalls |-> <<>>]
    ELSE LET r == add_airfoil(coll, stg, RowRecord(rows[i]), oks[i], proc.salt, proc.gstate)
             rest == LoadRows(r.collection, stg, rows, i + 1, oks, proc)
         IN  [collection |-> rest.collection,
              count |-> (IF r.raised = "" THEN 1 ELSE 0) + rest.count,
              extcalls |-> r.extcalls \o rest.extcalls]

\* populate_database that clears whatever the caller asked.
populate_database_AlwaysClear(coll, stg, rows, clear_first, env, proc) ==
    LET c == clear_collection(coll, env.getOK, env.deleteOK)
        l == LoadRows(c.collection, stg, rows, 1, env.oks, proc)
    IN  IF c.raised # ""
        THEN [raised |-> c.raised, collection |-> c.collection, count |-> << >>,
              extcalls |-> c.extcalls]
        ELSE [raised |-> "", collection |-> l.collection, count |-> << l.count >>,
              extcalls |-> c.extcalls \o l.extcalls]

\* populate_database(clear_first): clear when asked, a failure of which
\* propagates; then the loop; the count of the rows added is returned.
populate_database(coll, stg, rows, clear_first, env, proc) ==
    LET c == IF clear_first THEN clear_collection(coll, env.getOK, env.deleteOK)
             ELSE [raised |-> "", collection |-> coll, extcalls |-> <<>>]
        l == LoadRows(c.collection, stg, rows, 1, env.oks, proc)
    IN  IF c.raised # ""
        THEN [raised |-> c.raised, collection |-> c.collection, count |-> << >>,
              extcalls |-> c.extcalls]
        ELSE [raised |-> "", collection |-> l.collection, count |-> << l.count >>,
              extcalls |-> c.extcalls \o l.extcalls]

\* The settings of the retrieval runs: the default model and dimension.
Settings ==
    [rag_similarity_threshold : Thresholds, rag_top_k_results : TopKs,
     embedding_provider : {"local", "openai"},
     embedding_model : {"text-embedding-3-small"}, embedding_dimension : {3},
     openai_api_key : {"sk-test"}, app_env : {"development"}]

\* The settings of the embedding runs: any provider, model and dimension.
EmbedSettings ==
    [rag_similarity_threshold : {3}, rag_top_k_results : {5},
     embedding_provider : {"local", "openai"},
     embedding_model : EmbeddingModels, embedding_dimension : Dims,
     openai_api_key : {"sk-test"}, app_env : {"development"}]

RCall(op, text, limit) == [op |-> op, text |-> text, limit |-> limit]

\* The defaults of Settings (config.py), with the credential configured
\* that the default provider requires.
DefaultSettings ==
    [rag_similarity_threshold |-> 3, rag_top_k_results |-> 5, embedding_provider |-> "openai",
     embedding_model |-> "text-embedding-3-small", embedding_dimension |-> 3,
     openai_api_key |-> "sk-test", app_env |-> "development"]

\* The threads of the process that call the getters, the getters, and the
\* calls of a batch of execute_tool calls.
Threads == {1, 2}
Getters == {"tool_registry", "rag_engine"}
BatchCalls == {1, 2}

\* A batch call that has not been made: no tool name, no result.
NoInput == [name |-> "", kwargs |-> NoKwargs, body |-> Return(PyNone)]
NoResult == [raised |-> "", executed |-> <<>>, output |-> <<>>]

\* Nothing has run yet: the module globals are None, the application is not
\* started, no thread is in a getter and no batch call is in flight.
InitSys ==
    /\ count = 0
    /\ app = "down"
    /\ rag_engine = 0
    /\ tool_registry = 0
    /\ built = [g \in Getters |-> 0]
    /\ tpc = [t \in Threads |-> "idle"]
    /\ tgot = [t \in Threads |-> [getter |-> "", instance |-> 0]]
    /\ response = 0
    /\ bpc = [c \in BatchCalls |-> "idle"]
    /\ binput = [c \in BatchCalls |-> NoInput]
    /\ btool = [c \in BatchCalls |-> <<>>]
    /\ bresult = [c \in BatchCalls |-> NoResult]

InitRAG ==
    /\ collection = {}
    /\ rcall = RCall("__init__", "", <<>>)
    /\ rraised = ""
    /\ results = NoAnswer
    /\ formatted = <<>>
    /\ extcalls = <<>>
    /\ hashseed = 0
    /\ grandom = 0
    /\ vec = <<>>
    /\ embedded = <<>>
    /\ created = FALSE
    /\ InitSys

\* The remote provider may fail; the local one computes.
EmbedOutcomes == IF settings.embedding_provider = "openai" THEN {TRUE, FALSE} ELSE {TRUE}

AddAirfoil(a, embedOK) ==
    LET r == add_airfoil(collection, settings, a, embedOK, hashseed, grandom) IN
    /\ Cardinality(collection) < MaxDocs
    /\ collection' = r.collection
    /\ rraised' = r.raised
    /\ extcalls' = r.extcalls
    /\ created' = CollectionExists(created, r.extcalls)
    /\ rcall' = RCall("add_airfoil", a.id, <<>>)
    /\ results' = NoAnswer
    /\ formatted' = <<>>
    /\ UNCHANGED <<settings, regVars, embVars, sysVars>>

\* search_similar(query_text, limit): embed the query, ask the index for
\* `limit` neighbours (the configured top-K for None), convert and filter.
SearchSimilar(query_text, limit, embedOK) ==
    \E outcome \in (IF embedOK
                    THEN IndexOutcomes(collection, EffectiveLimit(settings, limit))
                    ELSE {NotQueried}) :
        LET r == search_similar(settings, limit, embedOK, outcome) IN
        /\ results' = r.results
        /\ formatted' = r.formatted
        /\ rraised' = r.raised
        /\ extcalls' = r.extcalls
        /\ created' = CollectionExists(created, r.extcalls)
        /\ rcall' = RCall("search_similar", query_text, limit)
        /\ UNCHANGED <<settings, collection, regVars, embVars, sysVars>>

\* clear_collection(): the index's get and delete may each fail.
ClearCollection(getOK, deleteOK) ==
    LET r == clear_collection(collection, getOK, deleteOK) IN
    /\ collection' = r.collection
    /\ rraised' = r.raised
    /\ extcalls' = r.extcalls
    /\ created' = CollectionExists(created, r.extcalls)
    /\ rcall' = RCall("clear_collection", "", <<>>)
    /\ results' = NoAnswer
    /\ formatted' = <<>>
    /\ UNCHANGED <<settings, regVars, embVars, sysVars>>

\* How the provider and the index behave during one populate_database over rows.
LoadEnvs(rows) ==
    [getOK : BOOLEAN, deleteOK : BOOLEAN, oks : [1..Len(rows) -> EmbedOutcomes]]

\* populate_database(clear_first) over the rows of a CSV file.
PopulateDatabase(rows, clear_first, env) ==
    LET r == populate_database(collection, settings, rows, clear_first, env,
                               [salt |-> hashseed, gstate |-> grandom]) IN
    /\ collection' = r.collection
    /\ rraised' = r.raised
    /\ count' = IF r.count = << >> THEN count ELSE r.count[1]
    /\ extcalls' = r.extcalls
    /\ created' = CollectionExists(created, r.extcalls)
    /\ rcall' = RCall("populate_database", rows, << clear_first >>)
    /\ results' = NoAnswer
    /\ formatted' = <<>>
    /\ UNCHANGED <<settings, regVars, embVars, appVars, batchVars>>

\* embed_text(text) called directly on an engine of this process.
EmbedText(text, embedOK) ==
    LET e == embed_text(settings, text, embedOK, hashseed, grandom) IN
    /\ rraised' = e.raised
    /\ vec' = e.vector
    /\ embedded' = IF e.raised = "" /\ text \notin DOMAIN embedded
                   THEN embedded @@ (text :> [vector |-> e.vector, process |-> hashseed])
                   ELSE embedded
    /\ extcalls' = << ExtCall("embed", 0, e.raised = "") >>
    /\ rcall' = RCall("embed_text", text, <<>>)
    /\ results' = NoAnswer
    /\ formatted' = <<>>
    /\ UNCHANGED <<settings, collection, created, regVars, hashseed, grandom, sysVars>>

\* The service is restarted: a new process, with a new hash salt and a fresh
\* module-level generator, builds its engine from the same settings over the
\* same persistent collection.
NewProcess(salt) ==
    /\ salt # hashseed
    /\ hashseed' = salt
    /\ grandom' = 0
    /\ rcall' = RCall("__init__", "", <<>>)
    /\ rraised' = ""
    /\ extcalls' = <<>>
    /\ results' = NoAnswer
    /\ formatted' = <<>>
    /\ vec' = <<>>
    /\ UNCHANGED <<settings, collection, created, regVars, embedded, sysVars>>

\* Other code of the process draws from the module-level generator.
GlobalRandomDraw ==
    /\ grandom' = (grandom + 1) % Cardinality(GlobalStates)
    /\ UNCHANGED <<settings, collection, created, rcall, rraised, results, formatted, extcalls, sysVars,
                   regVars, hashseed, vec, embedded>>

(***************************************************************************)
(* Specifications.                                                         *)
(***************************************************************************)
Init == InitRegistry /\ InitRAG /\ settings = DefaultSettings

Next ==
    \/ \E t \in ToolPool : Register(t)
    \/ \E name \in ToolNames : GetTool(name)
    \/ ListTools
    \/ \E name \in ToolNames, kwargs \in Kwargs, body \in PluginBodies, clock \in Clocks :
          ExecuteTool(name, kwargs, body, clock)

Spec == Init /\ [][Next]_vars

NextRAG ==
    \/ \E a \in Airfoils, embedOK \in EmbedOutcomes : AddAirfoil(a, embedOK)
    \/ \E q \in Queries, limit \in Limits, embedOK \in EmbedOutcomes :
          SearchSimilar(q, limit, embedOK)
    \/ \E getOK \in BOOLEAN, deleteOK \in BOOLEAN : ClearCollection(getOK, deleteOK)

InitAnySettings == InitRegistry /\ InitRAG /\ settings \in Settings

SpecRAG == InitAnySettings /\ [][NextRAG]_vars

NextEmbed ==
    \/ \E t \in EmbedTexts, embedOK \in EmbedOutcomes : EmbedText(t, embedOK)
    \/ \E a \in Airfoils, embedOK \in EmbedOutcomes : AddAirfoil(a, embedOK)
    \/ \E salt \in HashSeeds : NewProcess(salt)
    \/ GlobalRandomDraw

InitEmbed == InitRegistry /\ InitRAG /\ settings \in EmbedSettings

SpecEmbed == InitEmbed /\ [][NextEmbed]_vars

(***************************************************************************)
(* Startup, the module-level singletons and the administrative endpoint    *)
(* (main.py, app/rag.py, app/mcp_tools.py, app/api/routes.py).  An         *)
(* instance is identified by the number of its construction; 0 is None.    *)
(***************************************************************************)
\* The settings a deployment may run with.
AppSettings ==
    [rag_similarity_threshold : {3}, rag_top_k_results : {5},
     embedding_provider : {"local", "openai"},
     embedding_model : {"text-embedding-3-small"}, embedding_dimension : {3},
     openai_api_key : {"", "sk-test"},
     app_env : {"development", "staging", "production"}]

\* RAGEngine.__init__ without the credential check.
RAGEngine_init_NoCheck(stg) == ""

\* RAGEngine.__init__(settings): the exception raised, "" for none.
RAGEngine_init(stg) ==
    IF stg.embedding_provider = "openai" /\ stg.openai_api_key = ""
    THEN "ValueError" ELSE ""

\* get_rag_engine(): the global is returned when set; otherwise an engine is
\* constructed and, when the constructor returned, stored in the global.
get_rag_engine(slot, stg, nbuilt) ==
    IF slot # 0
    THEN [raised |-> "", slot |-> slot, instance |-> slot, built |-> nbuilt]
    ELSE IF RAGEngine_init(stg) # ""
    THEN [raised |-> RAGEngine_init(stg), slot |-> 0, instance |-> 0, built |-> nbuilt]
    ELSE [raised |-> "", slot |-> nbuilt + 1, instance |-> nbuilt + 1, built |-> nbuilt + 1]

\* get_tool_registry(): the same over _tool_registry; MCPToolRegistry() does not raise.
get_tool_registry(slot, nbuilt) ==
    IF slot # 0
    THEN [raised |-> "", slot |-> slot, instance |-> slot, built |-> nbuilt]
    ELSE [raised |-> "", slot |-> nbuilt + 1, instance |-> nbuilt + 1, built |-> nbuilt + 1]

\* The startup half of lifespan: the credential check, then the engine, then
\* the registry; any exception is logged and re-raised, and the application
\* does not start.
lifespan(stg, engine, registry, nbuilt) ==
    LET e == get_rag_engine(engine, stg, nbuilt["rag_engine"])
        t == get_tool_registry(registry, nbuilt["tool_registry"])
    IN  IF stg.openai_api_key = ""
        THEN [raised |-> "ValueError", app |-> "failed", rag_engine |-> engine,
              tool_registry |-> registry, built |-> nbuilt]
        ELSE IF e.raised # ""
        THEN [raised |-> e.raised, app |-> "failed", rag_engine |-> e.slot,
              tool_registry |-> registry, built |-> nbuilt]
        ELSE [raised |-> "", app |-> "up", rag_engine |-> e.slot, tool_registry |-> t.slot,
              built |-> [nbuilt EXCEPT !["rag_engine"] = e.built, !["tool_registry"] = t.built]]

\* clear_rag_cache without the environment check.
clear_rag_cache_NoGuard(stg, engine, nbuilt, coll, getOK, deleteOK) ==
    LET dep == get_rag_engine(engine, stg, nbuilt)
        c == clear_collection(coll, getOK, deleteOK)
    IN  IF dep.raised # ""
        THEN [status |-> 500, collection |-> coll, extcalls |-> <<>>, dep |-> dep]
        ELSE [status |-> IF c.raised = "" THEN 204 ELSE 503,
              collection |-> c.collection, extcalls |-> c.extcalls, dep |-> dep]

\* POST /admin/clear-cache: the dependency get_rag_engine_dep is resolved
\* first; then 403 in production, else clear_collection, whose failure is
\* answered with 503.
clear_rag_cache(stg, engine, nbuilt, coll, getOK, deleteOK) ==
    LET dep == get_rag_engine(engine, stg, nbuilt)
        c == clear_collection(coll, getOK, deleteOK)
    IN  IF dep.raised # ""
        THEN [status |-> 500, collection |-> coll, extcalls |-> <<>>, dep |-> dep]
        ELSE IF stg.app_env = "production"
        THEN [status |-> 403, collection |-> coll, extcalls |-> <<>>, dep |-> dep]
        ELSE [status |-> IF c.raised = "" THEN 204 ELSE 503,
              collection |-> c.collection, extcalls |-> c.extcalls, dep |-> dep]

\* The application starts.
Lifespan ==
    LET r == lifespan(settings, rag_engine, tool_registry, built) IN
    /\ app = "down"
    /\ app' = r.app
    /\ rag_engine' = r.rag_engine
    /\ tool_registry' = r.tool_registry
    /\ built' = r.built
    /\ rraised' = r.raised
    /\ rcall' = RCall("lifespan", "", <<>>)
    /\ extcalls' = <<>>
    /\ results' = NoAnswer
    /\ formatted' = <<>>
    /\ UNCHANGED <<settings, collection, created, regVars, embVars, count, tpc, tgot,
                   response, batchVars>>

\* get_rag_engine() called by a script, a test or a dependency.
GetRagEngine ==
    LET r == get_rag_engine(rag_engine, settings, built["rag_engine"]) IN
    /\ rag_engine' = r.slot
    /\ built' = [built EXCEPT !["rag_engine"] = r.built]
    /\ rraised' = r.raised
    /\ rcall' = RCall("get_rag_engine", "", <<>>)
    /\ extcalls' = <<>>
    /\ results' = NoAnswer
    /\ formatted' = <<>>
    /\ UNCHANGED <<settings, collection, created, regVars, embVars, count, app,
                   tool_registry, tpc, tgot, response, batchVars>>

\* GET /health, served by a started application.
HealthCheck ==
    /\ app = "up"
    /\ response' = 200
    /\ rcall' = RCall("health_check", "", <<>>)
    /\ rraised' = ""
    /\ extcalls' = <<>>
    /\ results' = NoAnswer
    /\ formatted' = <<>>
    /\ UNCHANGED <<settings, collection, created, regVars, embVars, count, app,
                   rag_engine, tool_registry, built, tpc, tgot, batchVars>>

\* POST /admin/clear-cache, served by a started application.
ClearRagCache(getOK, deleteOK) ==
    LET r == clear_rag_cache(settings, rag_engine, built["rag_engine"], collection,
                             getOK, deleteOK) IN
    /\ app = "up"
    /\ response' = r.status
    /\ collection' = r.collection
    /\ extcalls' = r.extcalls
    /\ created' = CollectionExists(created, r.extcalls)
    /\ rag_engine' = r.dep.slot
    /\ built' = [built EXCEPT !["rag_engine"] = r.dep.built]
    /\ rraised' = ""
    /\ rcall' = RCall("clear_rag_cache", "", <<>>)
    /\ results' = NoAnswer
    /\ formatted' = <<>>
    /\ UNCHANGED <<settings, regVars, embVars, count, app, tool_registry, tpc, tgot,
                   batchVars>>

\* The ingestion script adds a record through an engine it constructs itself.
IngestAirfoil(a, embedOK) ==
    /\ RAGEngine_init(settings) = ""
    /\ AddAirfoil(a, embedOK)

\* The execute_tool calls of a batch: the built-in estimator, a plugin whose
\* body returns, raises an Exception or raises a BaseException, and a name
\* that is not registered.
BatchInputs ==
    { [name |-> "estimate_downforce", kwargs |-> [airfoil |-> "NACA 2412", speed_kph |-> 250],
       body |-> Return(PyNone)],
      [name |-> "custom_wake", kwargs |-> NoKwargs, body |-> Return(PyDict("{'wake': 1}"))],
      [name |-> "custom_wake", kwargs |-> NoKwargs,
       body |-> Raise(Exc("Exception", <<"unknown airfoil">>))],
      [name |-> "custom_wake", kwargs |-> NoKwargs,
       body |-> Raise(Exc("BaseException", <<"cancelled">>))],
      [name |-> "drag_estimate", kwargs |-> NoKwargs, body |-> Return(PyNone)] }

\* The clock reads of the calls of a batch.
BatchClock == [start |-> 100, end |-> 101]

\* The try block failing once another call of the batch has failed.
batch_execute_FailsAfterPeer(tool, input, peers) ==
    IF \E c \in DOMAIN peers :
          peers[c].raised # "" \/ (peers[c].output # <<>> /\ ~peers[c].output[1].success)
    THEN OnException(input.name, Exc("Exception", <<"batch aborted">>), <<>>, BatchClock)
    ELSE invoke(tool, input.name, input.kwargs, input.body, BatchClock)

\* The try block of one call of a batch, on the tool the call looked up;
\* `peers` is how the other calls have ended so far, which the code does not read.
batch_execute(tool, input, peers) ==
    invoke(tool, input.name, input.kwargs, input.body, BatchClock)

\* A plugin is registered before the batch starts.
BatchRegister(t) ==
    /\ \A c \in BatchCalls : bpc[c] = "idle"
    /\ Register(t)

\* A call of the batch is made.
BatchStart(c, input) ==
    /\ bpc[c] \in {"idle", "done"}
    /\ binput' = [binput EXCEPT ![c] = input]
    /\ btool' = [btool EXCEPT ![c] = <<>>]
    /\ bresult' = [bresult EXCEPT ![c] = NoResult]
    /\ bpc' = [bpc EXCEPT ![c] = "lookup"]
    /\ UNCHANGED <<regVars, settings, collection, created, rcall, rraised, results,
                   formatted, extcalls, embVars, count, appVars>>

\* tool = self.get_tool(tool_name); a miss raises ValueError.
BatchLookup(c) ==
    LET tool == get_tool(tools, binput[c].name) IN
    /\ bpc[c] = "lookup"
    /\ btool' = [btool EXCEPT ![c] = tool]
    /\ bresult' = [bresult EXCEPT ![c] = IF tool = <<>> THEN OnMissing(binput[c].name)
                                           ELSE NoResult]
    /\ bpc' = [bpc EXCEPT ![c] = IF tool = <<>> THEN "done" ELSE "execute"]
    /\ UNCHANGED <<regVars, settings, collection, created, rcall, rraised, results,
                   formatted, extcalls, embVars, count, appVars, binput>>

\* The awaited tool.execute returns or raises and the call ends.
BatchExecute(c) ==
    /\ bpc[c] = "execute"
    /\ bresult' = [bresult EXCEPT ![c] =
                      batch_execute(btool[c][1], binput[c],
                                    [d \in BatchCalls \ {c} |-> bresult[d]])]
    /\ bpc' = [bpc EXCEPT ![c] = "done"]
    /\ UNCHANGED <<regVars, settings, collection, created, rcall, rraised, results,
                   formatted, extcalls, embVars, count, appVars, binput, btool>>

\* Concurrent execute_tool calls on one registry, interleaved at their awaits.
NextBatch ==
    \/ \E t \in ToolPool : BatchRegister(t)
    \/ \E c \in BatchCalls, input \in BatchInputs : BatchStart(c, input)
    \/ \E c \in BatchCalls : BatchLookup(c)
    \/ \E c \in BatchCalls : BatchExecute(c)

SpecBatch == Init /\ [][NextBatch]_vars

\* The module global a getter manages.
Global(g) == IF g = "rag_engine" THEN rag_engine ELSE tool_registry

\* A thread enters a getter and tests `if <global> is None`: it returns the
\* global when set, and goes on to construct otherwise.
ThreadCall(t, g) ==
    /\ tpc[t] = "idle"
    /\ IF Global(g) # 0
       THEN /\ tgot' = [tgot EXCEPT ![t] = [getter |-> g, instance |-> Global(g)]]
            /\ tpc' = tpc
       ELSE /\ tgot' = [tgot EXCEPT ![t] = [getter |-> g, instance |-> 0]]
            /\ tpc' = [tpc EXCEPT ![t] = "construct"]
    /\ UNCHANGED <<regVars, settings, collection, created, rcall, rraised, results,
                   formatted, extcalls, embVars, count, app, rag_engine, tool_registry,
                   built, response, batchVars>>

\* The thread constructs an instance and stores it in the global.
ThreadConstruct(t) ==
    LET g == tgot[t].getter
        new == built[g] + 1 IN
    /\ tpc[t] = "construct"
    /\ built' = [built EXCEPT ![g] = new]
    /\ rag_engine' = IF g = "rag_engine" THEN new ELSE rag_engine
    /\ tool_registry' = IF g = "tool_registry" THEN new ELSE tool_registry
    /\ tpc' = [tpc EXCEPT ![t] = "return"]
    /\ UNCHANGED <<regVars, settings, collection, created, rcall, rraised, results,
                   formatted, extcalls, embVars, count, app, tgot, response, batchVars>>

\* The thread returns what the global holds now.
ThreadReturn(t) ==
    /\ tpc[t] = "return"
    /\ tgot' = [tgot EXCEPT ![t].instance = Global(tgot[t].getter)]
    /\ tpc' = [tpc EXCEPT ![t] = "idle"]
    /\ UNCHANGED <<regVars, settings, collection, created, rcall, rraised, results,
                   formatted, extcalls, embVars, count, app, rag_engine, tool_registry,
                   built, response, batchVars>>

\* The getters called from the threads of the server's thread pool, before
\* anything else has set the globals.
NextSingleton ==
    \/ \E t \in Threads, g \in Getters : ThreadCall(t, g)
    \/ \E t \in Threads : ThreadConstruct(t)
    \/ \E t \in Threads : ThreadReturn(t)

SpecSingleton == Init /\ [][NextSingleton]_vars

NextApp ==
    \/ Lifespan
    \/ GetRagEngine
    \/ HealthCheck
    \/ \E getOK \in BOOLEAN, deleteOK \in BOOLEAN : ClearRagCache(getOK, deleteOK)
    \/ \E a \in Airfoils, embedOK \in EmbedOutcomes : IngestAirfoil(a, embedOK)

InitApp == InitRegistry /\ InitRAG /\ settings \in AppSettings

SpecApp == InitApp /\ [][NextApp]_vars

\* The ingestion script run again and again, with and without --clear, and
\* the collection cleared in between.
NextLoad ==
    \/ \E rows \in CsvFiles, clear_first \in BOOLEAN :
          \E env \in LoadEnvs(rows) : PopulateDatabase(rows, clear_first, env)
    \/ \E getOK \in BOOLEAN, deleteOK \in BOOLEAN : ClearCollection(getOK, deleteOK)

SpecLoad == Init /\ [][NextLoad]_vars

\* The calls of one request handler after another: tool executions on the
\* default registry, where no plugin body runs, and searches over the
\* collection.
NextSeq ==
    \/ \E name \in ToolNames, clock \in Clocks :
          ExecuteTool(name, NoKwargs, Return(PyNone), clock)
    \/ \E a \in Airfoils, embedOK \in EmbedOutcomes : AddAirfoil(a, embedOK)
    \/ \E q \in Queries, limit \in Limits, embedOK \in EmbedOutcomes :
          SearchSimilar(q, limit, embedOK)

SpecSeq == Init /\ [][NextSeq]_vars

(***************************************************************************)
(* Properties of the tool registry, checked under Spec.                    *)
(***************************************************************************)
IsExecute == call.op = "execute_tool"
BodyRaised == IsExecute /\ executed # <<>> /\ executed[1].kind = "raise"
ReturnedFailure == raised = "" /\ Len(output) = 1 /\ ~output[1].success

\* C1 (as stated): whenever the body of a registered tool raises, whatever the
\* exception, execute_tool returns a result with success = FALSE and raises nothing.
C1_AnyExceptionIsolated == BodyRaised => ReturnedFailure

\* C1 (amended): whenever the body of a registered tool raises an exception
\* whose class derives from Exception, execute_tool returns a result with
\* success = FALSE and raises nothing.
C1_ExceptionIsolated ==
    (BodyRaised /\ executed[1].exc.base = "Exception") => ReturnedFailure

C1_Witness ==
    /\ BodyRaised
    /\ executed[1].exc = Exc("Exception", <<"unknown airfoil">>)
    /\ ReturnedFailure

\* C2: execute_tool on a name that is not registered raises (ValueError, the
\* code's not-found error), returns no result, invokes no tool and leaves the
\* registry as it was.
C2_MissingToolRaises ==
    [][ (call'.op = "execute_tool" /\ call'.name \notin Keys(tools))
          => /\ raised' = "ValueError"
             /\ output' = <<>>
             /\ executed' = <<>>
             /\ tools' = tools ]_vars

C2_Witness ==
    /\ IsExecute
    /\ call.name = "drag_estimate"
    /\ call.name \notin Keys(tools)
    /\ raised = "ValueError"
    /\ output = <<>>

\* The first tool accepted under the name, by the history of register calls.
FirstRegistered(name) ==
    LET hits == { i \in 1..Len(registered) : registered[i].name = name }
    IN  IF hits = {} THEN <<>>
        ELSE << registered[CHOOSE i \in hits : \A j \in hits : i <= j] >>

\* C3: register under a name already present raises (ValueError, the code's
\* duplicate error) and changes nothing, so get_tool and list_tools still give
\* the tool first registered; register under a fresh name inserts the tool.
C3_DuplicateRejected ==
    [][ call'.op = "register"
          => IF call'.name \in Keys(tools)
             THEN /\ raised' = "ValueError"
                  /\ tools' = tools
                  /\ get_tool(tools', call'.name) = FirstRegistered(call'.name)
                  /\ list_tools(tools') = list_tools(tools)
             ELSE /\ raised' = ""
                  /\ Len(get_tool(tools', call'.name)) = 1
                  /\ get_tool(tools', call'.name)[1].id = call'.tool ]_vars

C3_Witness ==
    /\ call.op = "register"
    /\ call.tool = 4
    /\ raised = "ValueError"
    /\ get_tool(tools, "custom_wake") = << PluginTool("custom_wake", 3) >>

\* C4 (the claim): every returned ToolOutput has a result iff success, and an
\* error_message iff not success.
C4_ResultIffSuccess ==
    output # <<>> =>
        /\ (output[1].result # PyNone) <=> output[1].success
        /\ (output[1].error_message # PyNone) <=> ~output[1].success

\* C5 (the claim): a failure result returned because the body raised carries
\* a non-empty string as error_message.
C5_ErrorMessageNonEmpty ==
    (BodyRaised /\ ReturnedFailure) =>
        /\ output[1].error_message.type = "str"
        /\ output[1].error_message.repr # ""

\* C6: when the body of a registered tool returns a mapping, execute_tool
\* returns success = TRUE, the requested name and that very mapping, and the
\* registered tool's execute was invoked once, with the caller's kwargs.
C6_SuccessCarriesResult ==
    (IsExecute /\ call.name \in Keys(tools)) =>
        /\ Len(executed) = 1
        /\ executed[1].tool = get_tool(tools, call.name)[1].id
        /\ executed[1].kwargs = call.kwargs
        /\ (executed[1].kind = "return" /\ executed[1].value.type = "dict") =>
              /\ raised = ""
              /\ Len(output) = 1
              /\ output[1].success
              /\ output[1].tool_name = call.name
              /\ output[1].result = executed[1].value
              /\ output[1].error_message = PyNone

C6_Witness ==
    /\ IsExecute
    /\ call.name = "estimate_downforce"
    /\ call.kwargs.airfoil = "NACA 2412"
    /\ Len(output) = 1
    /\ output[1].success
    /\ output[1].result = PyDict("{'airfoil': NACA 2412, 'estimated_downforce_kg': 45.2}")

\* The entry list_tools gives for a tool.
EntryOf(tool) ==
    [name |-> tool.name, description |-> Description(tool), input_schema |-> InputSchema(tool)]

\* C7: list_tools returns one entry per accepted registration, in registration
\* order, the two built-ins first; and it returns what the previous list_tools
\* returned when no register succeeded in between.
C7_ListInRegistrationOrder ==
    [][ call'.op = "list_tools"
          => /\ Len(listing') = Len(registered')
             /\ \A i \in 1..Len(listing') : listing'[i] = EntryOf(registered'[i])
             /\ \A i, j \in 1..Len(listing') : listing'[i].name = listing'[j].name => i = j
             /\ listing'[1].name = "estimate_downforce"
             /\ listing'[2].name = "predict_flow_influence"
             /\ (Len(listing) = Len(registered) => listing' = listing) ]_vars

C7_Witness ==
    /\ call.op = "list_tools"
    /\ Len(listing) = 4
    /\ listing[3].name = "custom_wake"
    /\ listing[4].name = "balance_check"

\* C8: get_tool, list_tools and execute_tool leave the dict as it is, get_tool
\* raises nothing and list_tools invokes no tool; the dict changes only by a
\* register that returned, which adds one entry under the tool's name; no name
\* is ever removed.
C8_OnlyRegisterWrites ==
    [][ /\ call'.op \in {"get_tool", "list_tools", "execute_tool"} => tools' = tools
        /\ call'.op = "get_tool" => raised' = ""
        /\ call'.op = "list_tools" => executed' = <<>>
        /\ tools' # tools =>
              /\ call'.op = "register"
              /\ raised' = ""
              /\ call'.name \notin Keys(tools)
              /\ Keys(tools') = Keys(tools) \cup {call'.name}
              /\ Len(tools') = Len(tools) + 1
              /\ \A i \in 1..Len(tools) : tools'[i] = tools[i]
        /\ Keys(tools) \subseteq Keys(tools') ]_vars

C8_Witness ==
    /\ IsExecute
    /\ Len(tools) = 4
    /\ Keys(tools) = {"estimate_downforce", "predict_flow_influence", "custom_wake", "balance_check"}
    /\ Len(output) = 1

(***************************************************************************)
(* Properties of the retrieval engine, checked under SpecRAG.              *)
(***************************************************************************)
Searched == rcall.op = "search_similar" /\ rraised = ""

\* C9: no result of search_similar has a score below the configured
\* threshold; when even the best neighbour is below it, nothing is returned.
C9_NoScoreBelowThreshold ==
    Searched =>
        /\ \A i \in 1..Len(formatted) :
              formatted[i].score >= settings.rag_similarity_threshold
        /\ (\A j \in 1..Len(results.distances) :
              One - results.distances[j] < settings.rag_similarity_threshold)
           => formatted = <<>>

C9_Witness ==
    /\ Searched
    /\ settings.rag_similarity_threshold = 9
    /\ collection # {}
    /\ Len(results.distances) = 2
    /\ results.distances[1] = 5
    /\ formatted = <<>>

\* C10: every result of search_similar is some neighbour of the index's
\* answer (its document and its metadata) with the score 1 - d for that
\* neighbour's own distance d.
C10_ScoreIsOneMinusDistance ==
    Searched =>
        \A i \in 1..Len(formatted) :
            \E j \in 1..Len(results.documents) :
                /\ formatted[i].document = results.documents[j]
                /\ formatted[i].metadata = results.metadatas[j]
                /\ formatted[i].score = One - results.distances[j]

C10_Witness ==
    /\ Searched
    /\ Len(formatted) = 2
    /\ formatted[1].score = 10
    /\ formatted[2].score = 3
    /\ formatted[1].metadata # formatted[2].metadata

\* The neighbours of the index's answer whose similarity reaches the threshold.
Qualifying ==
    { j \in 1..Len(results.distances) :
        One - results.distances[j] >= settings.rag_similarity_threshold }

\* The i-th qualifying neighbour, counting in the index's order.
NthQualifying(i) ==
    CHOOSE j \in Qualifying : Cardinality({ k \in Qualifying : k < j }) = i - 1

\* C11: the list returned is the index's answer restricted to the neighbours
\* whose score 1 - d reaches the threshold, in the index's order, none
\* dropped and none moved; the scores never increase along it.
C11_OrderedSubsequence ==
    Searched =>
        /\ Len(formatted) = Cardinality(Qualifying)
        /\ \A i \in 1..Len(formatted) :
              /\ formatted[i].document = results.documents[NthQualifying(i)]
              /\ formatted[i].metadata = results.metadatas[NthQualifying(i)]
              /\ formatted[i].score = One - results.distances[NthQualifying(i)]
        /\ \A i \in 1..(Len(formatted) - 1) : formatted[i].score >= formatted[i + 1].score

C11_Witness ==
    /\ Searched
    /\ Len(results.documents) = 2
    /\ Len(formatted) = 2
    /\ formatted[1].score = 5
    /\ formatted[2].score = -2
    /\ formatted[1].metadata = results.metadatas[1]
    /\ formatted[2].metadata = results.metadatas[2]


\* C12 as stated: every returned result carries a field rank, and the i-th
\* returned result has rank i.
C12_RankAnnotated ==
    Searched =>
        \A i \in 1..Len(formatted) :
            /\ "rank" \in DOMAIN formatted[i]
            /\ formatted[i].rank = i

\* C12: a returned result is a (document, score, metadata) triple without a
\* rank field; its rank is its 1-based position in the returned list, which
\* is assigned after filtering: the i-th returned result is the i-th neighbour
\* that passed the threshold, so the positions 1..n cover exactly the n
\* qualifying neighbours, without gaps.
C12_PositionIsPostFilterRank ==
    Searched =>
        /\ DOMAIN formatted = 1..Cardinality(Qualifying)
        /\ \A i \in 1..Len(formatted) :
              /\ DOMAIN formatted[i] = {"document", "score", "metadata"}
              /\ \E j \in Qualifying :
                    /\ i = 1 + Cardinality({ k \in Qualifying : k < j })
                    /\ formatted[i].score = One - results.distances[j]
                    /\ formatted[i].document = results.documents[j]

C12_Witness ==
    /\ Searched
    /\ Len(results.distances) = 2
    /\ Len(formatted) = 1
    /\ Cardinality(Qualifying) = 1
    /\ formatted[1].score = One - results.distances[1]

\* The limit the caller of the last search_similar meant.
MeantLimit == IF rcall.limit = <<>> THEN settings.rag_top_k_results ELSE rcall.limit[1]

\* The positions in extcalls of the calls made to a target.
CallsTo(target) == { i \in 1..Len(extcalls) : extcalls[i].target = target }

\* C13: search_similar asks the index for the caller's limit, or for the
\* configured top-K when the caller gave none, and returns at most that many
\* results.
C13_LimitHonoured ==
    rcall.op = "search_similar" =>
        /\ \A i \in CallsTo("query") : extcalls[i].n = MeantLimit
        /\ Len(results.documents) <= MeantLimit
        /\ Len(formatted) <= MeantLimit

C13_Witness ==
    /\ Searched
    /\ rcall.limit = <<1>>
    /\ settings.rag_top_k_results = 5
    /\ Cardinality(collection) = 2
    /\ CallsTo("query") = {2} /\ extcalls[2].n = 1
    /\ Len(formatted) = 1

\* Every call the last operation made to the provider or the index returned.
AllCallsReturned == \A i \in 1..Len(extcalls) : extcalls[i].ok

\* C14: a search_similar over an empty collection, whose embedding and query
\* calls returned, returns the empty list and raises nothing.
C14_EmptyCollectionEmptyResult ==
    (rcall.op = "search_similar" /\ collection = {} /\ AllCallsReturned) =>
        /\ rraised = ""
        /\ formatted = <<>>

C14_Witness ==
    /\ rcall.op = "search_similar"
    /\ collection = {}
    /\ CallsTo("query") = {2} /\ extcalls[2].ok
    /\ rcall.limit = <<3>>
    /\ rraised = "" /\ formatted = <<>>

\* C15: per search_similar the provider is called exactly once and the index
\* at most once; a failed embedding leaves as ProviderError without the index
\* being asked, a failed query leaves as IndexError, and the call returns
\* (an empty list included) only when both calls returned.
C15_FailuresPropagate ==
    rcall.op = "search_similar" =>
        /\ Cardinality(CallsTo("embed")) = 1
        /\ Cardinality(CallsTo("query")) <= 1
        /\ \A i \in CallsTo("embed") :
              ~extcalls[i].ok => (rraised = "ProviderError" /\ CallsTo("query") = {})
        /\ \A i \in CallsTo("query") : ~extcalls[i].ok => rraised = "IndexError"
        /\ rraised = "" => (AllCallsReturned /\ Cardinality(CallsTo("query")) = 1)

C15_Witness ==
    /\ rcall.op = "search_similar"
    /\ Len(extcalls) = 2
    /\ extcalls[1].ok /\ ~extcalls[2].ok
    /\ rraised = "IndexError"
    /\ formatted = <<>>

\* C16 as stated: every score returned by search_similar lies in [0, 1].
C16_ScoreInUnitInterval ==
    Searched => \A i \in 1..Len(formatted) : formatted[i].score \in 0..One


\* C17: with the local provider, every embed_text(t) returns the vector that
\* the first embed_text(t) returned, whichever process (hash salt) it runs in,
\* whatever the module-level generator's state is and whichever other texts
\* were embedded in between.
C17_LocalEmbedDeterministic ==
    (settings.embedding_provider = "local" /\ rcall.op = "embed_text" /\ rraised = "") =>
        /\ rcall.text \in DOMAIN embedded
        /\ vec = embedded[rcall.text].vector

C17_Witness ==
    /\ settings.embedding_provider = "local"
    /\ rcall.op = "embed_text" /\ rraised = ""
    /\ rcall.text \in DOMAIN embedded
    /\ embedded[rcall.text].process # hashseed
    /\ grandom # 0
    /\ Cardinality(DOMAIN embedded) >= 2
    /\ vec = embedded[rcall.text].vector
    /\ Len(vec) = settings.embedding_dimension

\* C18 as stated: every stored record's vector, and every vector embed_text
\* returns, has the configured embedding_dimension as its length.
C18_VectorLengthIsD ==
    /\ \A r \in collection : Len(r.embedding) = settings.embedding_dimension
    /\ (rcall.op = "embed_text" /\ rraised = "") => Len(vec) = settings.embedding_dimension

\* The step is an add_airfoil whose embedding returned, for an id the
\* collection already holds.
DuplicateAdd ==
    /\ rcall'.op = "add_airfoil"
    /\ CallsTo("add")' # {}
    /\ rcall'.text \in Ids(collection)

\* C19: an add_airfoil for an id already in the collection leaves as
\* DuplicateIdError and changes no record, and no two records of the
\* collection ever share an id.
C19_DuplicateAddRejected ==
    [][ /\ DuplicateAdd => (rraised' = "DuplicateIdError" /\ collection' = collection)
        /\ \A r1, r2 \in collection' : r1.id = r2.id => r1 = r2 ]_vars

C19_Witness ==
    /\ rcall.op = "add_airfoil"
    /\ rcall.text = "naca0012"
    /\ rraised = "DuplicateIdError"
    /\ CallsTo("add") = {2} /\ ~extcalls[2].ok
    /\ Cardinality({ r \in collection : r.id = "naca0012" }) = 1

\* The step is a clear_collection that returned normally.
Cleared == rcall'.op = "clear_collection" /\ rraised' = ""

\* The step is a search_similar that returned normally.
SearchReturned == rcall'.op = "search_similar" /\ rraised' = ""

\* C20: a clear_collection that returns normally leaves the collection
\* without records, whatever it held, and a search_similar that follows a
\* cleared collection returns the empty list.
C20_ClearEmpties ==
    [][ /\ Cleared => collection' = {}
        /\ (rcall.op = "clear_collection" /\ rraised = "" /\ SearchReturned)
              => formatted' = <<>> ]_vars

C20_Witness ==
    /\ rcall.op = "clear_collection" /\ rraised = ""
    /\ CallsTo("delete") = {2} /\ extcalls[2].n = 2 /\ extcalls[2].ok
    /\ collection = {}


\* The step is a clear_collection whose index calls all returned.
ClearStep == rcall'.op = "clear_collection" /\ AllCallsReturned'

\* C21 as stated: a clear_collection on a collection that was never created
\* returns normally and changes no persisted state: the collection is not
\* brought into existence and holds no documents.
C21_ClearOnMissingIsNoOp ==
    [][ (ClearStep /\ ~created) =>
            /\ rraised' = ""
            /\ created' = created
            /\ collection' = {} ]_vars

\* The last call executed the built-in downforce estimator with arguments
\* that violate DownforceEstimateInput: no airfoil, or a speed that is not
\* positive.
InvalidDownforceCall ==
    /\ IsExecute
    /\ call.name = "estimate_downforce"
    /\ executed # <<>>
    /\ (call.kwargs.airfoil = "None" \/ call.kwargs.speed_kph <= 0)

\* C25 as stated: executing the downforce estimator with arguments that
\* violate its input schema gives a result with success = false.
C25_InvalidInputFails == InvalidDownforceCall => ReturnedFailure


\* C27 as stated, its first half: every ToolOutput returned has
\* execution_time_ms >= 0.
C27_ElapsedNonNegative ==
    (IsExecute /\ output # <<>>) => output[1].execution_time_ms >= 0


\* C28: in search_similar the embedding is the first call and the query the
\* second, made only when the embedding returned, and results are produced
\* only from a query that returned; in execute_tool the tool's execute is
\* invoked only on the tool the lookup found, never after a lookup miss.
C28_StepsSequential ==
    /\ rcall.op = "search_similar" =>
          /\ CallsTo("embed") = {1}
          /\ CallsTo("query") \subseteq {2}
          /\ ~extcalls[1].ok => CallsTo("query") = {}
          /\ formatted # <<>> => (CallsTo("query") = {2} /\ extcalls[2].ok)
    /\ IsExecute =>
          /\ get_tool(tools, call.name) = <<>> => (executed = <<>> /\ raised = "ValueError")
          /\ executed # <<>> =>
                /\ get_tool(tools, call.name) # <<>>
                /\ executed[1].tool = get_tool(tools, call.name)[1].id

C28_Witness ==
    /\ rcall.op = "search_similar"
    /\ extcalls = << ExtCall("embed", 0, FALSE) >>
    /\ rraised = "ProviderError"
    /\ collection # {}
    /\ IsExecute
    /\ call.name = "drag_estimate"
    /\ executed = <<>> /\ raised = "ValueError"


\* The step is a populate_database without clear_first that returned.
Reingested ==
    /\ rcall'.op = "populate_database"
    /\ rcall'.limit = << FALSE >>
    /\ rraised' = ""

\* The ids populate_database derives for the rows of a file.
RowIds(rows) == { DocumentId(rows[i].name) : i \in 1..Len(rows) }

RemoteWithoutCredential ==
    settings.embedding_provider = "openai" /\ settings.openai_api_key = ""

\* C22: with the remote provider configured without a credential, startup
\* and every get_rag_engine raise, no engine is ever constructed or stored
\* in the global, no provider or index call is made and no request is served.
C22_FailFastWithoutCredential ==
    RemoteWithoutCredential =>
        /\ rag_engine = 0
        /\ built["rag_engine"] = 0
        /\ app # "up"
        /\ response = 0
        /\ extcalls = <<>> /\ collection = {} /\ ~created
        /\ rcall.op \in {"lifespan", "get_rag_engine"} => rraised = "ValueError"

C22_Witness ==
    /\ RemoteWithoutCredential
    /\ app = "failed"
    /\ rcall.op = "get_rag_engine"
    /\ rraised = "ValueError"
    /\ rag_engine = 0

\* The step is a request to the clear-cache endpoint.
ClearRequest == rcall'.op = "clear_rag_cache"

\* C29: in production the clear-cache endpoint answers 403, makes no call
\* to the index and leaves the collection as it is; in any other environment
\* it invokes clear_collection and answers 204, or 503 when that failed.
C29_ClearGuardedByEnvironment ==
    [][ ClearRequest =>
            IF settings.app_env = "production"
            THEN /\ response' = 403
                 /\ extcalls' = <<>>
                 /\ collection' = collection
                 /\ created' = created
            ELSE /\ CallsTo("get")' = {1}
                 /\ response' = (IF AllCallsReturned' THEN 204 ELSE 503)
                 /\ AllCallsReturned' => collection' = {} ]_vars

C29_Witness ==
    /\ rcall.op = "clear_rag_cache"
    /\ settings.app_env = "production"
    /\ response = 403
    /\ Cardinality(collection) = 2
    /\ extcalls = <<>>

\* C30 as stated: with the local provider and an empty credential, engine
\* construction and application startup both succeed.
C30_LocalNeedsNoCredential ==
    (settings.embedding_provider = "local" /\ settings.openai_api_key = "") =>
        /\ rcall.op = "get_rag_engine" => (rraised = "" /\ rag_engine # 0)
        /\ app # "down" => app = "up"


\* C23 as stated: whatever the interleaving of the threads' getter calls, a
\* getter constructs at most one instance and every thread receives the
\* same instance from it.
C23_OneInstancePerProcess ==
    /\ \A g \in Getters : built[g] <= 1
    /\ \A t1, t2 \in Threads :
          (tgot[t1].getter = tgot[t2].getter /\ tgot[t1].instance # 0 /\ tgot[t2].instance # 0)
              => tgot[t1].instance = tgot[t2].instance


\* C24: however the calls of a batch interleave, a call that has ended has
\* ended as execute_tool on the registry ends for its own tool name,
\* arguments and tool body, whatever the other calls did.
C24_CallsIndependent ==
    \A c \in BatchCalls :
        bpc[c] = "done" =>
            bresult[c] = execute_tool(tools, binput[c].name, binput[c].kwargs,
                                      binput[c].body, BatchClock)

C24_Witness ==
    /\ bpc[1] = "done" /\ bpc[2] = "done"
    /\ binput[1].name = "custom_wake" /\ binput[1].body.kind = "raise"
    /\ bresult[1].output # <<>> /\ ~bresult[1].output[1].success
    /\ binput[2].name = "custom_wake" /\ binput[2].body.kind = "return"
    /\ bresult[2].output # <<>> /\ bresult[2].output[1].success

====
